---- MODULE Spec2Model ----
(***************************************************************************)
(* Model of backend/api/serializers.py: the user, password, recipe-list    *)
(* and recipe serializers, with the storage tables they read and write.    *)
(* Four specifications share the variables; each leaves the variables of   *)
(* the other serializers at their initial values.                          *)
(*   SpecSignup   - UserSerializer: concurrent signup requests             *)
(*   SpecPassword - SetPasswordSerializer: one password-change request     *)
(*   SpecListing  - UserFullSerializer.get_recipes                         *)
(*   SpecRecipe   - RecipesSerializer: create, to_representation, update   *)
(***************************************************************************)
EXTENDS Integers, Sequences, FiniteSets, TLC

VARIABLES
    users,      \* table User: sequence of rows [email, username, password]
    pc,         \* per signup request: position in is_valid() / save()
    data,       \* per signup request: the submitted fields
    errors,     \* per signup request: the field errors collected so far
    pwUser,     \* the stored password hash of request.user (password change)
    pwReq,      \* the password-change request being validated
    authored,   \* table Recipes, author column only: sequence of author ids
    listing,    \* the last get_recipes call and what it returned
    recipe,     \* the row of the recipe under test (or NoRecipe)
    lines,      \* table RecipesIngridients: sequence of rows, in pk order
    req         \* the RecipesSerializer call in progress

vars == <<users, pc, data, errors, pwUser, pwReq, authored, listing,
          recipe, lines, req>>

signupVars   == <<users, pc, data, errors>>
passwordVars == <<pwUser, pwReq>>
listingVars  == <<authored, listing>>
recipeVars   == <<recipe, lines, req>>

Range(s) == {s[i] : i \in DOMAIN s}

\* Sequences over S of length at most n.
SeqUpTo(S, n) == UNION {[1..k -> S] : k \in 0..n}

(***************************************************************************)
(* Bounds                                                                  *)
(***************************************************************************)
NumRequests == 2    \* signup requests in flight together
MaxLen      == 2    \* longest tags / ingredients list of a payload
MaxAuthored == 3    \* rows of the Recipes table in the listing model

(***************************************************************************)
(* UserSerializer                                                          *)
(***************************************************************************)
Requests  == 1..NumRequests
Emails    == {"ann@x.org", "bob@x.org"}
Usernames == {"ann", "bob"}
SignupPasswords == {"qwerty"}

\* make_password / set_password: only a hash of the raw text is kept.
Hash(raw) == <<"hash", raw>>
Raw(raw)  == <<"raw", raw>>

NoData == [email |-> "", username |-> "", password |-> ""]

InitSignupVars ==
    /\ users  = <<>>
    /\ pc     = [r \in Requests |-> "idle"]
    /\ data   = [r \in Requests |-> NoData]
    /\ errors = [r \in Requests |-> {}]

\* A request arrives; is_valid() starts with the first declared field.
Submit(r) ==
    /\ pc[r] = "idle"
    /\ \E e \in Emails, u \in Usernames, p \in SignupPasswords :
           data' = [data EXCEPT ![r] = [email |-> e, username |-> u, password |-> p]]
    /\ pc' = [pc EXCEPT ![r] = "validate_email"]
    /\ UNCHANGED <<users, errors, passwordVars, listingVars, recipeVars>>

EmailExistsWrongField(email) == \E i \in DOMAIN users : users[i].username = email

\* User.objects.filter(email=email).exists()
EmailExists(email) == \E i \in DOMAIN users : users[i].email = email

\* User.objects.filter(username=username).exists()
UsernameExists(username) == \E i \in DOMAIN users : users[i].username = username

validate_email(r) ==
    /\ pc[r] = "validate_email"
    /\ errors' = [errors EXCEPT ![r] =
                    IF EmailExists(data[r].email) THEN @ \cup {"email"} ELSE @]
    /\ pc' = [pc EXCEPT ![r] = "validate_username"]
    /\ UNCHANGED <<users, data, passwordVars, listingVars, recipeVars>>

\* The last field validator; is_valid() raises when any field error was collected.
validate_username(r) ==
    /\ pc[r] = "validate_username"
    /\ LET errs == IF UsernameExists(data[r].username)
                   THEN errors[r] \cup {"username"} ELSE errors[r]
       IN /\ errors' = [errors EXCEPT ![r] = errs]
          /\ pc' = [pc EXCEPT ![r] = IF errs = {} THEN "valid" ELSE "rejected"]
    /\ UNCHANGED <<users, data, passwordVars, listingVars, recipeVars>>

\* User.objects.create(**validated_data): the row is inserted as given.
UserObjectsCreate(table, row) == Append(table, row)

\* super().create(validated_data): the row holds the submitted password text.
create_insert(r) ==
    /\ pc[r] = "valid"
    /\ users' = UserObjectsCreate(users,
                   [email |-> data[r].email, username |-> data[r].username,
                    password |-> Raw(data[r].password), owner |-> r])
    /\ pc' = [pc EXCEPT ![r] = "created"]
    /\ UNCHANGED <<data, errors, passwordVars, listingVars, recipeVars>>

\* user.set_password(...); user.save(): the row of this request is rewritten.
create_set_password_save(r) ==
    /\ pc[r] = "created"
    /\ users' = [i \in DOMAIN users |->
                   IF users[i].owner = r
                   THEN [users[i] EXCEPT !.password = Hash(data[r].password)]
                   ELSE users[i]]
    /\ pc' = [pc EXCEPT ![r] = "done"]
    /\ UNCHANGED <<data, errors, passwordVars, listingVars, recipeVars>>

NextSignup ==
    \/ \E r \in Requests : Submit(r)
    \/ \E r \in Requests : validate_email(r)
    \/ \E r \in Requests : validate_username(r)
    \/ \E r \in Requests : create_insert(r)
    \/ \E r \in Requests : create_set_password_save(r)

(***************************************************************************)
(* SetPasswordSerializer                                                   *)
(***************************************************************************)
\* Well-formed field values: non-blank and within max_length.
Passwords       == {"12345", "pass", "N3w-horse-staple", "Tr1cky-battery", "Gr33n-correct"}
StrongPasswords == {"N3w-horse-staple", "Tr1cky-battery", "Gr33n-correct"}

NoPwReq == [pc |-> "idle", new_password |-> "", current_password |-> "",
            errors |-> {}, validate_called |-> FALSE]

InitPasswordVars ==
    /\ pwUser \in {Hash(p) : p \in Passwords}
    /\ pwReq  = NoPwReq

\* validate_password(password, user): the configured strength policy.
PolicyAccepts(password) == password \in StrongPasswords

\* user.check_password(password)
check_password(password) == pwUser = Hash(password)

PasswordsEqualNever(current, new) == FALSE

\* current_password == new_password
PasswordsEqual(current, new) == current = new

\* A password-change request of request.user arrives.
SubmitPassword ==
    /\ pwReq.pc = "idle"
    /\ \E n \in Passwords, c \in Passwords :
          pwReq' = [NoPwReq EXCEPT !.pc = "validate_new_password",
                                   !.new_password = n, !.current_password = c]
    /\ UNCHANGED <<pwUser, signupVars, listingVars, recipeVars>>

validate_new_password ==
    /\ pwReq.pc = "validate_new_password"
    /\ pwReq' = [pwReq EXCEPT
                   !.pc = "validate_current_password",
                   !.errors = IF PolicyAccepts(pwReq.new_password)
                              THEN @ ELSE @ \cup {"new_password"}]
    /\ UNCHANGED <<pwUser, signupVars, listingVars, recipeVars>>

\* The last field validator; validate() runs only when no field error was collected.
validate_current_password ==
    /\ pwReq.pc = "validate_current_password"
    /\ LET errs == IF check_password(pwReq.current_password)
                   THEN pwReq.errors ELSE pwReq.errors \cup {"current_password"}
       IN pwReq' = [pwReq EXCEPT !.errors = errs,
                       !.pc = IF errs = {} THEN "validate" ELSE "rejected"]
    /\ UNCHANGED <<pwUser, signupVars, listingVars, recipeVars>>

validate ==
    /\ pwReq.pc = "validate"
    /\ IF PasswordsEqual(pwReq.current_password, pwReq.new_password)
       THEN pwReq' = [pwReq EXCEPT !.pc = "rejected", !.validate_called = TRUE,
                                   !.errors = {"non_field_errors"}]
       ELSE pwReq' = [pwReq EXCEPT !.pc = "accepted", !.validate_called = TRUE]
    /\ UNCHANGED <<pwUser, signupVars, listingVars, recipeVars>>

RespondPassword ==
    /\ pwReq.pc \in {"accepted", "rejected"}
    /\ pwReq' = NoPwReq
    /\ UNCHANGED <<pwUser, signupVars, listingVars, recipeVars>>

NextPassword ==
    \/ SubmitPassword
    \/ validate_new_password
    \/ validate_current_password
    \/ validate
    \/ RespondPassword

(***************************************************************************)
(* UserFullSerializer.get_recipes                                          *)
(***************************************************************************)
Authors == {"ann", "bob"}

\* query_params.get('recipes_limit'): <<>> when absent, <<text>> when given.
LimitParams == {<<>>, <<"">>, <<"0">>, <<"1">>, <<"2">>, <<"abc">>}

NoListing == [called |-> FALSE, user |-> "", limit |-> <<>>,
              raised |-> FALSE, recipes |-> <<>>]

DefaultPasswordVars ==
    /\ pwUser = Hash("qwerty")
    /\ pwReq  = NoPwReq

InitListingVars ==
    /\ authored = <<>>
    /\ listing  = NoListing

\* The decimal texts int() accepts, among those of LimitParams.
IntLiterals == ("0" :> 0) @@ ("1" :> 1) @@ ("2" :> 2)

RECURSIVE FilterSeq(_, _)
\* The pks of the rows of `table` written by `author`, in pk order.
FilterSeq(table, author) ==
    IF table = <<>> THEN <<>>
    ELSE LET n == Len(table)
             front == FilterSeq(SubSeq(table, 1, n - 1), author)
         IN IF table[n] = author THEN Append(front, n) ELSE front

\* queryset[:n] for n >= 0
Slice(s, n) == SubSeq(s, 1, IF n < Len(s) THEN n ELSE Len(s))

\* A recipe is stored for some author.
AddRecipe ==
    /\ Len(authored) < MaxAuthored
    /\ \E a \in Authors : authored' = Append(authored, a)
    /\ UNCHANGED <<listing, signupVars, passwordVars, recipeVars>>

\* get_recipes: int(limit) raises ValueError on a text that is no integer.
get_recipes(user, limit) ==
    /\ listing' =
          IF limit # <<>> /\ limit[1] # ""
          THEN IF limit[1] \in DOMAIN IntLiterals
               THEN [called |-> TRUE, user |-> user, limit |-> limit, raised |-> FALSE,
                     recipes |-> Slice(FilterSeq(authored, user), IntLiterals[limit[1]])]
               ELSE [called |-> TRUE, user |-> user, limit |-> limit, raised |-> TRUE,
                     recipes |-> <<>>]
          ELSE [called |-> TRUE, user |-> user, limit |-> limit, raised |-> FALSE,
                recipes |-> FilterSeq(authored, user)]
    /\ UNCHANGED <<authored, signupVars, passwordVars, recipeVars>>

NextListing ==
    \/ AddRecipe
    \/ \E u \in Authors, l \in LimitParams : get_recipes(u, l)

(***************************************************************************)
(* RecipesSerializer                                                       *)
(***************************************************************************)
IngredientIds == {1, 2}
Amounts       == {1, 2}
TagIds        == {1, 2}
Names         == {"soup", "stew"}

\* Reference rows of the Ingredients and Tags tables.
IngredientsTable ==
    (1 :> [name |-> "salt", measurement_unit |-> "g"]) @@
    (2 :> [name |-> "milk", measurement_unit |-> "ml"])
TagsTable ==
    (1 :> [name |-> "breakfast", color |-> "#E26C2D", slug |-> "breakfast"]) @@
    (2 :> [name |-> "dinner", color |-> "#49B64E", slug |-> "dinner"])

\* CharField.to_representation of a pk: its decimal text.
IntText == (1 :> "1") @@ (2 :> "2")

RecipeId    == "recipe-1"
OtherRecipe == "recipe-0"
StoredImage == <<"http:", "", "testserver", "media", "recipes", "images", "d3b0.png">>

Entries == [id : IngredientIds, amount : Amounts]
AllKeys == {"tags", "ingredients", "name"}
M2MKeys == {"tags", "ingredients"}

\* validated_data of create: every required key is present.
CreatePayloads ==
    [keys : {AllKeys}, tags : SeqUpTo(TagIds, MaxLen),
     ingredients : SeqUpTo(Entries, MaxLen), name : Names]

\* validated_data of update: any key may be missing (partial update); a missing
\* key carries the filler value of its type.
UpdatePayloads ==
    {d \in [keys : SUBSET AllKeys, tags : SeqUpTo(TagIds, MaxLen),
            ingredients : SeqUpTo(Entries, MaxLen), name : Names \cup {""}] :
        /\ ("tags" \notin d.keys => d.tags = <<>>)
        /\ ("ingredients" \notin d.keys => d.ingredients = <<>>)
        /\ ("name" \in d.keys <=> d.name # "")}

NoPayload == [keys |-> {}, tags |-> <<>>, ingredients |-> <<>>, name |-> ""]
NoRecipe  == [exists |-> FALSE, name |-> "", tags |-> {}, image |-> <<>>]
NoReq     == [op |-> "none", pc |-> "idle", data |-> NoPayload, keys |-> {},
              inserted |-> 0, assigned |-> {}, saves |-> 0]

InitRecipeVars ==
    /\ recipe = NoRecipe
    /\ lines  = <<[recipe |-> OtherRecipe, ingredient |-> 1, amount |-> 1]>>
    /\ req    = NoReq

RECURSIVE LinesOf(_, _, _)
\* One row per entry whose ingredient id did not occur earlier in the list.
LinesOf(rid, ingredients, seen) ==
    IF ingredients = <<>> THEN <<>>
    ELSE LET e == Head(ingredients)
             rest == LinesOf(rid, Tail(ingredients), seen \cup {e.id})
         IN IF e.id \in seen THEN rest
            ELSE <<[recipe |-> rid, ingredient |-> e.id, amount |-> e.amount]>> \o rest

InsertLinesDedup(table, rid, ingredients) == table \o LinesOf(rid, ingredients, {})

\* for ingredient in ingredients: RecipesIngridients.objects.create(...)
InsertLines(table, rid, ingredients) ==
    table \o [i \in 1..Len(ingredients) |->
                [recipe |-> rid, ingredient |-> ingredients[i].id,
                 amount |-> ingredients[i].amount]]

\* recipe.tags.set(tags): the many-to-many relation holds each tag once.
TagsSet(tags) == Range(tags)

\* RecipesIngridients.objects.filter(recipe_id=rid) / recipes_ingredients.all()
RecipeLines(table, rid) == SelectSeq(table, LAMBDA l : l.recipe = rid)

RECURSIVE DeleteFirst(_, _)
\* i.delete() for the first row of the queryset.
DeleteFirst(table, rid) ==
    IF table = <<>> THEN <<>>
    ELSE IF Head(table).recipe = rid THEN Tail(table)
         ELSE <<Head(table)>> \o DeleteFirst(Tail(table), rid)

\* The order in which a queryset of line rows is read: the model's default
\* ordering, taken to be insertion (pk) order.
DefaultOrdering(rows) == rows

RECURSIVE Ascending(_)
\* instance.tags.all(): the related rows, listed by pk.
Ascending(S) ==
    IF S = {} THEN <<>>
    ELSE LET m == CHOOSE x \in S : \A y \in S : x <= y
         IN <<m>> \o Ascending(S \ {m})

\* '/' + '/'.join(path.split('/')[-4:]), a path being its list of segments.
PublicPath(segments) ==
    LET n == Len(segments)
    IN <<"">> \o SubSeq(segments, IF n > 4 THEN n - 3 ELSE 1, n)

TagsSerializer(t) ==
    [id |-> t, name |-> TagsTable[t].name, color |-> TagsTable[t].color,
     slug |-> TagsTable[t].slug]

IngredientsRecipeSerializer(l) ==
    [id |-> IntText[l.ingredient], amount |-> l.amount,
     name |-> IngredientsTable[l.ingredient].name,
     measurement_unit |-> IngredientsTable[l.ingredient].measurement_unit]

to_representation ==
    LET ts == Ascending(recipe.tags)
        ls == DefaultOrdering(RecipeLines(lines, RecipeId))
    IN [name        |-> recipe.name,
        image       |-> PublicPath(recipe.image),
        tags        |-> [i \in DOMAIN ts |-> TagsSerializer(ts[i])],
        ingredients |-> [i \in DOMAIN ls |-> IngredientsRecipeSerializer(ls[i])]]

create ==
    /\ req.pc = "idle"
    /\ ~recipe.exists
    /\ \E d \in CreatePayloads :
          /\ recipe' = [exists |-> TRUE, name |-> d.name, tags |-> TagsSet(d.tags),
                        image |-> StoredImage]
          /\ lines' = InsertLines(lines, RecipeId, d.ingredients)
          /\ req' = [NoReq EXCEPT !.op = "create", !.pc = "created", !.data = d]
    /\ UNCHANGED <<signupVars, passwordVars, listingVars>>

TagsGivenKeyOnly(d) == "tags" \in d.keys

\* validated_data.get('tags') is truthy
TagsGiven(d) == "tags" \in d.keys /\ d.tags # <<>>

\* validated_data.get('ingredients') is truthy
IngredientsGiven(d) == "ingredients" \in d.keys /\ d.ingredients # <<>>

AfterTagsNoDelete(d) == IF IngredientsGiven(d) THEN "insert" ELSE "assign"

\* if ingredients: the delete loop comes first, then the insert loop.
AfterTags(d) == IF IngredientsGiven(d) THEN "delete" ELSE "assign"

TagsStepSavesScalars(d) ==
    [recipe EXCEPT !.tags = IF TagsGiven(d) THEN TagsSet(d.tags) ELSE @,
                   !.name = IF "name" \in d.keys THEN d.name ELSE @]

\* if validated_data.get('tags'): recipe.tags.set(validated_data.pop('tags'))
TagsStep(d) ==
    IF TagsGiven(d) THEN [recipe EXCEPT !.tags = TagsSet(d.tags)] ELSE recipe

\* update() is called: the tags step, and the pops that leave validated_data.
update_tags ==
    /\ req.pc = "idle"
    /\ recipe.exists
    /\ \E d \in UpdatePayloads :
          /\ recipe' = TagsStep(d)
          /\ req' = [NoReq EXCEPT
                       !.op = "update", !.pc = AfterTags(d), !.data = d,
                       !.keys = (d.keys \ (IF TagsGiven(d) THEN {"tags"} ELSE {}))
                                  \ (IF IngredientsGiven(d) THEN {"ingredients"} ELSE {})]
    /\ UNCHANGED <<lines, signupVars, passwordVars, listingVars>>

\* for i in RecipesIngridients.objects.filter(recipe_id=recipe.id): i.delete()
update_delete_line ==
    /\ req.pc = "delete"
    /\ IF RecipeLines(lines, RecipeId) = <<>>
       THEN /\ req' = [req EXCEPT !.pc = "insert"]
            /\ UNCHANGED lines
       ELSE /\ lines' = DeleteFirst(lines, RecipeId)
            /\ UNCHANGED req
    /\ UNCHANGED <<recipe, signupVars, passwordVars, listingVars>>

\* for ingredient in ingredients: RecipesIngridients.objects.create(...)
update_insert_line ==
    /\ req.pc = "insert"
    /\ LET k == req.inserted + 1
       IN /\ lines' = InsertLines(lines, RecipeId, <<req.data.ingredients[k]>>)
          /\ req' = [req EXCEPT !.inserted = k,
                        !.pc = IF k = Len(req.data.ingredients) THEN "assign" ELSE "insert"]
    /\ UNCHANGED <<recipe, signupVars, passwordVars, listingVars>>

\* for key, value in validated_data.items(): setattr(recipe, key, value); then
\* recipe.save(). Assigning to a many-to-many attribute raises TypeError; the
\* keys come in field order: tags, ingredients, name.
update_assign_save ==
    /\ req.pc = "assign"
    /\ IF req.keys \cap M2MKeys # {}
       THEN /\ req' = [req EXCEPT !.pc = "raised",
                          !.assigned = IF "tags" \in req.keys THEN {"tags"}
                                       ELSE {"ingredients"}]
            /\ UNCHANGED recipe
       ELSE /\ recipe' = [recipe EXCEPT
                             !.name = IF "name" \in req.keys THEN req.data.name ELSE @]
            /\ req' = [req EXCEPT !.pc = "done", !.assigned = req.keys, !.saves = 1]
    /\ UNCHANGED <<lines, signupVars, passwordVars, listingVars>>

\* A storage call of the delete loop, the insert loop or save() raises: update()
\* is left at once, and nothing undoes what the earlier calls stored.
update_fail ==
    /\ req.pc \in {"delete", "insert", "assign"}
    /\ req' = [req EXCEPT !.pc = "failed"]
    /\ UNCHANGED <<recipe, lines, signupVars, passwordVars, listingVars>>

\* The call returns (or its exception reaches the caller).
Return ==
    /\ req.pc \in {"created", "done", "raised", "failed"}
    /\ req' = NoReq
    /\ UNCHANGED <<recipe, lines, signupVars, passwordVars, listingVars>>

NextRecipe ==
    \/ create
    \/ update_tags
    \/ update_delete_line
    \/ update_insert_line
    \/ update_assign_save
    \/ update_fail
    \/ Return

(***************************************************************************)
(* Specifications                                                          *)
(***************************************************************************)
InitSignup ==
    InitSignupVars /\ DefaultPasswordVars /\ InitListingVars /\ InitRecipeVars
InitPassword ==
    InitSignupVars /\ InitPasswordVars /\ InitListingVars /\ InitRecipeVars
InitListing ==
    InitSignupVars /\ DefaultPasswordVars /\ InitListingVars /\ InitRecipeVars
InitRecipe ==
    InitSignupVars /\ DefaultPasswordVars /\ InitListingVars /\ InitRecipeVars

SpecSignup   == InitSignup /\ [][NextSignup]_vars
SpecPassword == InitPassword /\ [][NextPassword]_vars
SpecListing  == InitListing /\ [][NextListing]_vars
SpecRecipe   == InitRecipe /\ [][NextRecipe]_vars

Init == InitPassword
Next == NextSignup \/ NextPassword \/ NextListing \/ NextRecipe
Spec == Init /\ [][Next]_vars

(***************************************************************************)
(* Properties of UserSerializer (checked under SpecSignup)                 *)
(***************************************************************************)
EmailTaken(r)    == \E i \in DOMAIN users : users[i].email = data[r].email
UsernameTaken(r) == \E i \in DOMAIN users : users[i].username = data[r].username

\* C1: a signup whose email (or username) is that of a persisted user when the
\* field is validated gets the field's uniqueness error, is rejected, and
\* never writes: no step of a request holding an error changes the User table.
C1_DuplicateSignupRejected ==
    [][\A r \in Requests :
          /\ (pc[r] = "validate_email" /\ pc'[r] # pc[r] /\ EmailTaken(r))
                => ("email" \in errors'[r] /\ users' = users)
          /\ (pc[r] = "validate_username" /\ pc'[r] # pc[r] /\ UsernameTaken(r))
                => ("username" \in errors'[r] /\ pc'[r] = "rejected" /\ users' = users)
          /\ (errors[r] # {})
                => (pc'[r] \in {"validate_username", "rejected"} /\ errors[r] \subseteq errors'[r])
          /\ (errors'[r] # {} /\ pc'[r] # pc[r]) => users' = users
      ]_vars

\* A request was rejected for both its email and its username.
C1_Witness ==
    \E r \in Requests :
        pc[r] = "rejected" /\ errors[r] = {"email", "username"} /\ users # <<>>

\* C2: no two persisted users share an email, and no two share a username.
C2_UniqueEmailAndUsername ==
    \A i, j \in DOMAIN users :
        i # j => (users[i].email # users[j].email /\ users[i].username # users[j].username)

\* C3: the persisted password of every user is a hash, never the submitted text.
C3_OnlyHashPersisted ==
    \A i \in DOMAIN users : users[i].password[1] = "hash"

C8_RecipesLimit ==
    listing.called =>
        LET mine == FilterSeq(authored, listing.user)
            isInt == listing.limit # <<>> /\ listing.limit[1] \in {"0", "1", "2"}
            n == IntLiterals[listing.limit[1]]
        IN /\ ~listing.raised
           /\ listing.recipes = IF isInt THEN SubSeq(mine, 1, IF n < Len(mine) THEN n ELSE Len(mine))
                                ELSE mine
           /\ \A i \in DOMAIN listing.recipes : authored[listing.recipes[i]] = listing.user

(***************************************************************************)
(* Properties of RecipesSerializer (checked under SpecRecipe)              *)
(***************************************************************************)
OwnLines == SelectSeq(lines, LAMBDA l : l.recipe = RecipeId)

\* The payload's ingredient entries as they are read back.
ExpectedIngredients(d) ==
    [i \in DOMAIN d.ingredients |->
        [id |-> IntText[d.ingredients[i].id],
         amount |-> d.ingredients[i].amount,
         name |-> IngredientsTable[d.ingredients[i].id].name,
         measurement_unit |-> IngredientsTable[d.ingredients[i].id].measurement_unit]]

ExpectedTag(t) ==
    [id |-> t, name |-> TagsTable[t].name, color |-> TagsTable[t].color,
     slug |-> TagsTable[t].slug]

C5_IngredientsReplaced ==
    (req.op = "update" /\ req.pc = "done" /\ req.data.ingredients # <<>>) =>
        LET d == req.data
        IN /\ Len(OwnLines) = Len(d.ingredients)
           /\ \A i \in DOMAIN OwnLines :
                 /\ OwnLines[i].ingredient = d.ingredients[i].id
                 /\ OwnLines[i].amount = d.ingredients[i].amount
           /\ LET read == to_representation.ingredients
              IN {read[i].id : i \in DOMAIN read} =
                    {IntText[d.ingredients[i].id] : i \in DOMAIN d.ingredients}

\* An update that replaced the lines by a list leaving out an ingredient id.
C5_Witness ==
    /\ req.op = "update"
    /\ req.pc = "done"
    /\ req.data.ingredients # <<>>
    /\ \E x \in IngredientIds : \A i \in DOMAIN req.data.ingredients :
          req.data.ingredients[i].id # x

\* C6: no step of an update whose tags list is empty or absent changes the
\* recipe's tags, and no step of an update whose ingredients list is empty or
\* absent changes the ingredient lines.
C6_EmptyOrAbsentLeavesUnchanged ==
    [][req'.op = "update" =>
          /\ (req'.data.tags = <<>>) => recipe'.tags = recipe.tags
          /\ (req'.data.ingredients = <<>>) => lines' = lines
      ]_vars

\* An update given an empty tags list has ended and the recipe still has tags.
C6_Witness ==
    /\ req.op = "update"
    /\ req.pc \in {"done", "raised"}
    /\ "tags" \in req.data.keys
    /\ req.data.tags = <<>>
    /\ recipe.tags # {}

\* C9: every update completes without error, having assigned only scalar keys
\* and saved the record exactly once.
C9_UpdateAssignsScalarsOnly ==
    (req.op = "update" /\ req.pc \in {"done", "raised"}) =>
        /\ req.pc = "done"
        /\ req.assigned \subseteq (AllKeys \ M2MKeys)
        /\ req.saves = 1

\* C10: the storage steps of update come in the order tags, delete, insert,
\* save: past the first step the tags given are in place; inserting starts
\* once no old line is left and adds the payload's entries in order; the name
\* is stored only by the final save; a failing step undoes nothing.
C10_UpdateStepOrder ==
    [][req'.op = "update" =>
          LET d == req'.data
              own == SelectSeq(lines', LAMBDA l : l.recipe = RecipeId)
              new == SubSeq(d.ingredients, 1, req'.inserted)
          IN /\ d.tags # <<>> => recipe'.tags = Range(d.tags)
             /\ req'.pc = "delete" => req'.inserted = 0
             /\ (d.ingredients # <<>> /\ req'.pc \in {"insert", "assign", "done", "raised"})
                   => /\ Len(own) = req'.inserted
                      /\ \A i \in DOMAIN own :
                            /\ own[i].ingredient = new[i].id
                            /\ own[i].amount = new[i].amount
             /\ req'.pc \in {"assign", "done", "raised"}
                   => req'.inserted = Len(d.ingredients)
             /\ recipe'.name # recipe.name => (req.pc = "assign" /\ req'.pc = "done")
             /\ (req'.pc = "failed" /\ req.pc # "failed")
                   => (recipe' = recipe /\ lines' = lines)
      ]_vars

\* An update failed after deleting the old lines and inserting the first of
\* two new ones, its new name unsaved.
C10_Witness ==
    /\ req.op = "update"
    /\ req.pc = "failed"
    /\ Len(req.data.ingredients) = 2
    /\ req.inserted = 1
    /\ Len(OwnLines) = 1
    /\ OwnLines[1].ingredient = req.data.ingredients[1].id
    /\ "name" \in req.data.keys
    /\ recipe.name # req.data.name

====
